---- MODULE Spec2Model ----
(***************************************************************************)
(* ToastBot firmware.                                                      *)
(*                                                                         *)
(* Part 1: the shade controller, src/Arduino/colour_sense_6shades.ino.     *)
(*   loop() polls three colour sensors, averages L* and switches the       *)
(*   heaters off when the average reaches the target; receiveEvent() is    *)
(*   the Wire onReceive callback, run from the TWI interrupt, which maps a *)
(*   received shade index to targetL.  The callback can run between any    *)
(*   two accesses loop() makes to targetL, so loop() is split at each of   *)
(*   its reads and writes of targetL.                                      *)
(*                                                                         *)
(* Part 2: the manual PWM sketch, src/unnamed/part_000.                    *)
(*   loop() drains the serial receive buffer, parses a duty cycle, reads   *)
(*   the colour sensor and then bit-bangs 16 PWM mini-cycles.              *)
(***************************************************************************)
EXTENDS Integers, Sequences, FiniteSets, TLC

(***************************************************************************)
(* Bounds of the model.                                                    *)
(***************************************************************************)
\* Shade bytes the I2C master may send are 0..MaxByte (0..5 valid, above invalid).
MaxByte == 6
\* Bytes delivered to one receiveEvent call: 1..MaxBurst.
MaxBurst == 2
\* loop() firings counted per selection saturate here.
MaxFires == 2
\* Serial characters received and not yet discarded (receive buffer plus inputString).
MaxPending == 4
\* Digits of a line that arrives as a whole.
MaxLineLen == 5
\* Transmissions the touch UI makes.
MaxSent == 3
\* The encoder count stays within -MaxTurn..MaxTurn.
MaxTurn == 3

(***************************************************************************)
(* Part 1: shade controller                                                *)
(***************************************************************************)
VARIABLES
  shadeIndex,     \* int shadeIndex                       (.ino:37)
  shadeReceived,  \* bool shadeReceived                   (.ino:38)
  targetL,        \* float targetL, -1 = no target        (.ino:39)
  heat,           \* level written to HEAT_PIN_1..4
  readyPin,       \* level written to TOAST_READY_PIN
  pc,             \* position of loop()
  L1, L2, L3,     \* loop() locals: readSensor results
  avgL,           \* loop() local
  ok,             \* per sensor: did this cycle's bus read succeed (not visible to the code)
  tgtA,           \* value of targetL read by `targetL > 0`
  tgtB,           \* value of targetL read by `avgL <= targetL`
  fires,          \* times loop() ran its switch-off block since the last receiveEvent
  mux,            \* channel last written to the PCA9546 multiplexer
  bus             \* last transaction loop() or setup() made as bus master

ctlVars == <<shadeIndex, shadeReceived, targetL, heat, readyPin, pc,
             L1, L2, L3, avgL, ok, tgtA, tgtB, fires, mux, bus>>

VARIABLES
  duty_cycle,     \* int duty_cycle = 80                  (part_000:37)
  inputString,    \* String inputString                   (part_000:39)
  inputComplete,  \* bool inputComplete                   (part_000:40)
  rxBuf,          \* characters in the Serial receive buffer, oldest first
  pwmPin,         \* level written to pin 12
  ppc,            \* position of loop()
  high_time,      \* loop() local
  low_time,       \* loop() local
  mini,           \* mini-cycles completed in this iteration
  delayMs,        \* argument of the last delay() of the PWM section
  lab,            \* float L, a, b                        (part_000:34)
  readOk          \* value of the if condition of the four light reads (part_000:90)

pwmVars == <<duty_cycle, inputString, inputComplete, rxBuf, pwmPin, ppc,
             high_time, low_time, mini, delayMs, lab, readOk>>

\* The colour conversions applied to one sample.
VARIABLES
  sample,         \* channels r, g, b a sensor delivered
  converted,      \* the conversions have been applied to sample
  sensorLab       \* L, a, bLab of readSensor, per width of int  (.ino:174)

labVars == <<sample, converted, sensorLab>>

\* The touch UI, src/src/main.cpp.
VARIABLES
  uiShadeIndex,   \* int shadeIndex = 0                  (main.cpp:11)
  lastShadeIndex, \* int lastShadeIndex = -1             (main.cpp:58)
  shown,          \* shade displayShade() drew last
  sent,           \* last byte written to I2C address 8, -1 = none yet
  sentCount,      \* transmissions made
  touch           \* touch point loop() read last, <<>> = no touch

touchVars == <<uiShadeIndex, lastShadeIndex, shown, sent, sentCount, touch>>

\* The rotary UI, src/M5Dial/M5Dial.ino.
VARIABLES
  encoder,        \* count M5Dial.Encoder.read() returns
  oldPosition,    \* long oldPosition = -999             (M5Dial.ino:13)
  currentShade,   \* int currentShade = 1                (M5Dial.ino:14)
  prevShade,      \* currentShade before loop() changed it last
  lastDiff,       \* sign of diff at that change, 0 = no change yet
  turned          \* the user has turned the encoder since power-up

dialVars == <<encoder, oldPosition, currentShade, prevShade, lastDiff, turned>>

vars == <<ctlVars, pwmVars, labVars, touchVars, dialVars>>
nonCtlVars == <<pwmVars, labVars, touchVars, dialVars>>
nonPwmVars == <<ctlVars, labVars, touchVars, dialVars>>
nonLabVars == <<ctlVars, touchVars, dialVars>>
nonTouchVars == <<ctlVars, pwmVars, labVars, dialVars>>
nonDialVars == <<ctlVars, pwmVars, labVars, touchVars>>

HIGH == "HIGH"
LOW == "LOW"
HeatPins == 1..4
Sensors == 1..3
NoValue == -1

\* L* values a readSensor call may return.  Every value is a multiple of 3, so
\* (L1 + L2 + L3) / 3.0 is exact; the averages 45 and 75 meet two thresholds exactly.
LValues == {45, 90}

\* L* values readSensor computes from the r, g, b a failed read left unset:
\* normalizeRGB takes an int (16 bits here), so a channel of 32768 or more is
\* negative and the L* computed from it is negative.
GarbageL == {-45, 90}
ReadL(okk) == IF okk THEN LValues ELSE GarbageL

Bytes == 0..MaxByte
ByteSeqs == UNION {[1..n -> Bytes] : n \in 1..MaxBurst}

\* Mutant: the default case keeps the previous target instead of setting -1.
ShadeToTargetRetain(idx) ==
  CASE idx = 0 -> 85
    [] idx = 1 -> 75
    [] idx = 2 -> 65
    [] idx = 3 -> 55
    [] idx = 4 -> 45
    [] idx = 5 -> 35
    [] OTHER -> targetL

\* Mutant: the entries of shades 2 and 3 are exchanged.
ShadeToTargetSwapped(idx) ==
  CASE idx = 0 -> 85
    [] idx = 1 -> 75
    [] idx = 2 -> 55
    [] idx = 3 -> 65
    [] idx = 4 -> 45
    [] idx = 5 -> 35
    [] OTHER -> -1

\* The switch of receiveEvent: shade index -> target L*.
ShadeToTarget(idx) ==
  CASE idx = 0 -> 85
    [] idx = 1 -> 75
    [] idx = 2 -> 65
    [] idx = 3 -> 55
    [] idx = 4 -> 45
    [] idx = 5 -> 35
    [] OTHER -> -1

CtlInit ==
  /\ shadeIndex = -1
  /\ shadeReceived = FALSE
  /\ targetL = -1
  /\ heat = [p \in HeatPins |-> HIGH]
  /\ readyPin = HIGH
  /\ pc = "sel1"
  /\ L1 = NoValue /\ L2 = NoValue /\ L3 = NoValue
  /\ avgL = NoValue
  /\ ok = [s \in Sensors |-> TRUE]
  /\ tgtA = NoValue /\ tgtB = NoValue
  /\ fires = 0
  /\ mux = 3
  /\ bus = [op |-> "read", n |-> 4]

\* pcaselect(i): if (i > 3) return; otherwise write 1 << i to the multiplexer.
PcaSelect(i) ==
  IF i > 3 THEN UNCHANGED <<mux, bus>>
  ELSE /\ mux' = i
       /\ bus' = [op |-> "select", n |-> i]

\* Mutant: readSensor passes sensorID, not sensorID - 1, to pcaselect.
SelectSensor2OffByOne ==
  /\ pc = "sel2"
  /\ PcaSelect(2)
  /\ pc' = "read2"
  /\ UNCHANGED <<shadeIndex, shadeReceived, targetL, heat, readyPin,
                 L1, L2, L3, avgL, ok, tgtA, tgtB, fires>>
  /\ UNCHANGED nonCtlVars

\* readSensor(sensor1, 1): pcaselect(sensorID - 1);
SelectSensor1 ==
  /\ pc = "sel1"
  /\ PcaSelect(1 - 1)
  /\ pc' = "read1"
  /\ UNCHANGED <<shadeIndex, shadeReceived, targetL, heat, readyPin,
                 L1, L2, L3, avgL, ok, tgtA, tgtB, fires>>
  /\ UNCHANGED nonCtlVars

\* readSensor(sensor2, 2): pcaselect(sensorID - 1);
SelectSensor2 ==
  /\ pc = "sel2"
  /\ PcaSelect(2 - 1)
  /\ pc' = "read2"
  /\ UNCHANGED <<shadeIndex, shadeReceived, targetL, heat, readyPin,
                 L1, L2, L3, avgL, ok, tgtA, tgtB, fires>>
  /\ UNCHANGED nonCtlVars

\* readSensor(sensor3, 3): pcaselect(sensorID - 1);
SelectSensor3 ==
  /\ pc = "sel3"
  /\ PcaSelect(3 - 1)
  /\ pc' = "read3"
  /\ UNCHANGED <<shadeIndex, shadeReceived, targetL, heat, readyPin,
                 L1, L2, L3, avgL, ok, tgtA, tgtB, fires>>
  /\ UNCHANGED nonCtlVars

\* float L1 = readSensor(sensor1, 1): getColorData returns nothing, so a failed
\* bus read (okk = FALSE) still yields some value, which readSensor converts.
ReadSensor1 ==
  /\ pc = "read1"
  /\ \E okk \in BOOLEAN : \E v \in ReadL(okk) :
       /\ L1' = v
       /\ ok' = [ok EXCEPT ![1] = okk]
  /\ bus' = [op |-> "read", n |-> 1]
  /\ pc' = "sel2"
  /\ UNCHANGED <<shadeIndex, shadeReceived, targetL, heat, readyPin, mux,
                 L2, L3, avgL, tgtA, tgtB, fires>>
  /\ UNCHANGED nonCtlVars

ReadSensor2 ==
  /\ pc = "read2"
  /\ \E okk \in BOOLEAN : \E v \in ReadL(okk) :
       /\ L2' = v
       /\ ok' = [ok EXCEPT ![2] = okk]
  /\ bus' = [op |-> "read", n |-> 2]
  /\ pc' = "sel3"
  /\ UNCHANGED <<shadeIndex, shadeReceived, targetL, heat, readyPin, mux,
                 L1, L3, avgL, tgtA, tgtB, fires>>
  /\ UNCHANGED nonCtlVars

ReadSensor3 ==
  /\ pc = "read3"
  /\ \E okk \in BOOLEAN : \E v \in ReadL(okk) :
       /\ L3' = v
       /\ ok' = [ok EXCEPT ![3] = okk]
  /\ bus' = [op |-> "read", n |-> 3]
  /\ pc' = "avg"
  /\ UNCHANGED <<shadeIndex, shadeReceived, targetL, heat, readyPin, mux,
                 L1, L2, avgL, tgtA, tgtB, fires>>
  /\ UNCHANGED nonCtlVars

\* float avgL = (L1 + L2 + L3) / 3.0
Average(x, y, z) == (x + y + z) \div 3

ComputeAvg ==
  /\ pc = "avg"
  /\ avgL' = Average(L1, L2, L3)
  /\ pc' = "test1"
  /\ UNCHANGED <<shadeIndex, shadeReceived, targetL, heat, readyPin,
                 L1, L2, L3, ok, tgtA, tgtB, fires>>
  /\ UNCHANGED <<mux, bus>>
  /\ UNCHANGED nonCtlVars

\* Mutant: with no target set, the heaters are driven HIGH again.
TestTargetSetReheat ==
  /\ pc = "test1"
  /\ tgtA' = targetL
  /\ pc' = IF targetL > 0 THEN "test2" ELSE "delay"
  /\ heat' = IF targetL > 0 THEN heat ELSE [p \in HeatPins |-> HIGH]
  /\ UNCHANGED <<shadeIndex, shadeReceived, targetL, readyPin,
                 L1, L2, L3, avgL, ok, tgtB, fires>>
  /\ UNCHANGED <<mux, bus>>
  /\ UNCHANGED nonCtlVars

\* if (targetL > 0 && ...: the left operand; && skips the right one when false.
TestTargetSet ==
  /\ pc = "test1"
  /\ tgtA' = targetL
  /\ pc' = IF targetL > 0 THEN "test2" ELSE "delay"
  /\ UNCHANGED <<shadeIndex, shadeReceived, targetL, heat, readyPin,
                 L1, L2, L3, avgL, ok, tgtB, fires>>
  /\ UNCHANGED <<mux, bus>>
  /\ UNCHANGED nonCtlVars

\* Mutant: the comparison is strict.
TestReachedStrict ==
  /\ pc = "test2"
  /\ tgtB' = targetL
  /\ pc' = IF avgL < targetL THEN "fire" ELSE "delay"
  /\ UNCHANGED <<shadeIndex, shadeReceived, targetL, heat, readyPin,
                 L1, L2, L3, avgL, ok, tgtA, fires>>
  /\ UNCHANGED <<mux, bus>>
  /\ UNCHANGED nonCtlVars

\* ... && avgL <= targetL): the right operand, a second read of targetL.
TestReached ==
  /\ pc = "test2"
  /\ tgtB' = targetL
  /\ pc' = IF avgL <= targetL THEN "fire" ELSE "delay"
  /\ UNCHANGED <<shadeIndex, shadeReceived, targetL, heat, readyPin,
                 L1, L2, L3, avgL, ok, tgtA, fires>>
  /\ UNCHANGED <<mux, bus>>
  /\ UNCHANGED nonCtlVars

\* The five digitalWrite(..., LOW) calls of the if block.
SwitchOff ==
  /\ pc = "fire"
  /\ heat' = [p \in HeatPins |-> LOW]
  /\ readyPin' = LOW
  /\ fires' = IF fires < MaxFires THEN fires + 1 ELSE fires
  /\ pc' = "clear"
  /\ UNCHANGED <<shadeIndex, shadeReceived, targetL,
                 L1, L2, L3, avgL, ok, tgtA, tgtB>>
  /\ UNCHANGED <<mux, bus>>
  /\ UNCHANGED nonCtlVars

\* Mutant: the target is not cleared after the heaters are switched off.
ClearTargetForgotten ==
  /\ pc = "clear"
  /\ pc' = "delay"
  /\ UNCHANGED <<shadeIndex, shadeReceived, targetL, heat, readyPin,
                 L1, L2, L3, avgL, ok, tgtA, tgtB, fires>>
  /\ UNCHANGED <<mux, bus>>
  /\ UNCHANGED nonCtlVars

\* targetL = -1; // Prevent retrigger
ClearTarget ==
  /\ pc = "clear"
  /\ targetL' = -1
  /\ pc' = "delay"
  /\ UNCHANGED <<shadeIndex, shadeReceived, heat, readyPin,
                 L1, L2, L3, avgL, ok, tgtA, tgtB, fires>>
  /\ UNCHANGED <<mux, bus>>
  /\ UNCHANGED nonCtlVars

\* delay(1000); loop() returns and its locals go out of scope.
Delay ==
  /\ pc = "delay"
  /\ pc' = "sel1"
  /\ L1' = NoValue /\ L2' = NoValue /\ L3' = NoValue
  /\ avgL' = NoValue
  /\ ok' = [s \in Sensors |-> TRUE]
  /\ tgtA' = NoValue /\ tgtB' = NoValue
  /\ UNCHANGED <<shadeIndex, shadeReceived, targetL, heat, readyPin, fires>>
  /\ UNCHANGED <<mux, bus>>
  /\ UNCHANGED nonCtlVars

\* receiveEvent: while (Wire.available()) { shadeIndex = Wire.read(); ... switch }
\* Every byte of the burst is mapped in turn, so the last byte decides.
ReceiveEvent(bytes) ==
  /\ shadeIndex' = bytes[Len(bytes)]
  /\ shadeReceived' = TRUE
  /\ targetL' = ShadeToTarget(bytes[Len(bytes)])
  /\ fires' = 0
  /\ UNCHANGED <<heat, readyPin, pc, L1, L2, L3, avgL, ok, tgtA, tgtB>>
  /\ UNCHANGED <<mux, bus>>
  /\ UNCHANGED nonCtlVars

Loop ==
  \/ SelectSensor1
  \/ ReadSensor1
  \/ SelectSensor2
  \/ ReadSensor2
  \/ SelectSensor3
  \/ ReadSensor3
  \/ ComputeAvg
  \/ TestTargetSet
  \/ TestReached
  \/ SwitchOff
  \/ ClearTarget
  \/ Delay

Receive == \E bytes \in ByteSeqs : ReceiveEvent(bytes)

CtlNext == Loop \/ Receive


(***************************************************************************)
(* Part 2: manual PWM sketch                                               *)
(***************************************************************************)
\* Characters the serial line may deliver.
Chars == {"0", "1", "x", "\n"}
Digits == {"0", "1", "2", "3", "4", "5", "6", "7", "8", "9"}
DigitValue(c) ==
  CASE c = "0" -> 0 [] c = "1" -> 1 [] c = "2" -> 2 [] c = "3" -> 3 [] c = "4" -> 4
    [] c = "5" -> 5 [] c = "6" -> 6 [] c = "7" -> 7 [] c = "8" -> 8 [] c = "9" -> 9

\* Two's complement wrap to a 16-bit int.
WrapInt16(v) == ((v + 32768) % 65536) - 32768

\* atol's digit loop: leading decimal digits of s, accumulated into a long
\* (a line of at most MaxPending digits stays far inside 32 bits).
RECURSIVE LeadingDigits(_, _)
LeadingDigits(s, acc) ==
  IF s = <<>> \/ Head(s) \notin Digits
    THEN acc
    ELSE LeadingDigits(Tail(s), acc * 10 + DigitValue(Head(s)))

\* atol of the buffer: optional sign, then digits; 0 if there are none.
AtoL(s) ==
  IF s # <<>> /\ Head(s) = "-" THEN 0 - LeadingDigits(Tail(s), 0)
  ELSE IF s # <<>> /\ Head(s) = "+" THEN LeadingDigits(Tail(s), 0)
  ELSE LeadingDigits(s, 0)

\* String::toInt() returns atol's long, which is assigned to the 16-bit int new_duty.
ToInt(s) == WrapInt16(AtoL(s))

\* The while (Serial.available() > 0) loop over the buffered characters.
RECURSIVE DrainString(_, _)
DrainString(buf, str) ==
  IF buf = <<>> THEN str
  ELSE DrainString(Tail(buf), IF Head(buf) = "\n" THEN str ELSE Append(str, Head(buf)))

HasNewline(buf) == \E i \in 1..Len(buf) : buf[i] = "\n"

(***************************************************************************)
(* Colour conversion: colour_sense_6shades.ino 49-78 and part_000 179-230. *)
(* A float x is the integer floor(x * one); each conversion has its own    *)
(* one, chosen so that 16/116 is exact and products stay inside 32 bits.   *)
(***************************************************************************)
\* Resolution of the .ino conversion (values up to (257/1.055)^2.4) and of
\* convertRGBToLAB (values below 1).
InoOne == 1160
PwmOne == 116000

\* What a division of 0 by 0 yields, as an integer no computation produces.
NaN == -2147483647

\* a * num / den, den > 0, without an intermediate a * num.
Scale(a, num, den) == (a \div den) * num + ((a % den) * num) \div den

\* Product of two fixed-point numbers.
FMul(one, x, y) == Scale(x, y, one)

RECURSIVE PowN(_, _, _)
PowN(one, x, n) == IF n = 1 THEN x ELSE FMul(one, PowN(one, x, n - 1), x)

\* Largest r in lo..hi with r^n <= t: the n-th root of t >= 0.
RECURSIVE Root(_, _, _, _, _)
Root(one, t, n, lo, hi) ==
  IF lo = hi THEN lo
  ELSE LET mid == (lo + hi + 1) \div 2
       IN IF PowN(one, mid, n) <= t THEN Root(one, t, n, mid, hi)
                                    ELSE Root(one, t, n, lo, mid - 1)

\* Largest roots the searches look for: cube roots up to 100, fifth roots up to 10.
CbrtMax == 100
Root5Max == 10

\* pow(x, 2.4) for x > 0: x^2 * (x^2)^(1/5).
Pow24(one, x) ==
  LET x2 == FMul(one, x, x)
  IN FMul(one, x2, Root(one, x2, 5, 0, Root5Max * one))

\* pow(x, 1.0 / 3.0) for x > 0.
Cbrt(one, x) == Root(one, x, 3, 0, CbrtMax * one)

\* The thresholds 0.04045 and 0.008856, floored to the resolution.
GammaThreshold(one) == (4045 * one) \div 100000
LabThreshold(one) == (8856 * (one \div 1000)) \div 1000

\* Width of int in normalizeRGB(int color): 16 bits on an AVR build, 32 on ESP32.
IntWidths == {16, 32}

\* float normalizeRGB(int color) { return color / 255.0; }  The uint16_t channel
\* is converted to int first.
normalizeRGB(color, width) ==
  ((IF width = 16 THEN WrapInt16(color) ELSE color) * InoOne) \div 255

\* r = (r > 0.04045) ? pow((r + 0.055) / 1.055, 2.4) : r / 12.92
InoLinear(r) ==
  IF r > GammaThreshold(InoOne)
    THEN Pow24(InoOne, Scale(r + (55 * InoOne) \div 1000, 1000, 1055))
    ELSE Scale(r, 100, 1292)

\* RGBtoXYZ: the matrix coefficients rounded to four decimals.
RGBtoXYZ(r, g, b) ==
  LET rl == InoLinear(r)
      gl == InoLinear(g)
      bl == InoLinear(b)
  IN [X |-> Scale(rl, 4125, 10000) + Scale(gl, 3576, 10000) + Scale(bl, 1804, 10000),
      Y |-> Scale(rl, 2127, 10000) + Scale(gl, 7152, 10000) + Scale(bl, 722, 10000),
      Z |-> Scale(rl, 193, 10000) + Scale(gl, 1192, 10000) + Scale(bl, 9503, 10000)]

\* Xr = (Xr > 0.008856) ? pow(Xr, 1.0 / 3.0) : (903.3 * Xr + 16) / 116
InoF(t) ==
  IF t > LabThreshold(InoOne)
    THEN Cbrt(InoOne, t)
    ELSE (Scale(t, 9033, 10) + 16 * InoOne) \div 116

\* XYZtoLAB: L, a, b in units of 1 / InoOne; Xn and Zn rounded to four decimals.
XYZtoLAB(xyz) ==
  LET Xr == InoF(Scale(xyz.X, 10000, 9505))
      Yr == InoF(xyz.Y)
      Zr == InoF(Scale(xyz.Z, 10000, 10888))
  IN <<116 * Yr - 16 * InoOne, 500 * (Xr - Yr), 200 * (Yr - Zr)>>

\* readSensor from the channels r, g, b that getColorData left: L, a, bLab.
SensorLab(s, width) ==
  XYZtoLAB(RGBtoXYZ(normalizeRGB(s[1], width), normalizeRGB(s[2], width),
                    normalizeRGB(s[3], width)))

Max2(x, y) == IF x >= y THEN x ELSE y

\* if (R > 0.04045) R = pow((R + 0.055) / 1.055, 2.4); else R = R / 12.92; R *= 100.0
PwmLinear(c) ==
  100 * (IF c > GammaThreshold(PwmOne)
           THEN Pow24(PwmOne, Scale(c + (55 * PwmOne) \div 1000, 1000, 1055))
           ELSE Scale(c, 100, 1292))

\* if (x > 0.008856) x = pow(x, 1.0 / 3.0); else x = (7.787 * x) + (16.0 / 116.0)
PwmF(t) ==
  IF t > LabThreshold(PwmOne)
    THEN Cbrt(PwmOne, t)
    ELSE Scale(t, 7787, 1000) + (16 * PwmOne) \div 116

\* The body of convertRGBToLAB after the maxVal test: L, a, b in units of 1 / PwmOne.
ConvertScaled(R, G, B, maxVal) ==
  LET Rl == PwmLinear(Scale(PwmOne, R, maxVal) \div 255)
      Gl == PwmLinear(Scale(PwmOne, G, maxVal) \div 255)
      Bl == PwmLinear(Scale(PwmOne, B, maxVal) \div 255)
      X == Scale(Rl, 4124, 10000) + Scale(Gl, 3576, 10000) + Scale(Bl, 1805, 10000)
      Y == Scale(Rl, 2126, 10000) + Scale(Gl, 7152, 10000) + Scale(Bl, 722, 10000)
      Z == Scale(Rl, 193, 10000) + Scale(Gl, 1192, 10000) + Scale(Bl, 9505, 10000)
      x == PwmF(Scale(X, 1000, 95047))
      y == PwmF(Y \div 100)
      z == PwmF(Scale(Z, 1000, 108883))
  IN <<116 * y - 16 * PwmOne, 500 * (x - y), 200 * (y - z)>>

\* Mutant: the maxVal <= 0 test is missing, so a black sample is divided by 0.
convertRGBToLABUnguarded(R, G, B) ==
  LET maxVal == Max2(Max2(R, G), B)
  IN IF maxVal = 0 THEN <<NaN, NaN, NaN>> ELSE ConvertScaled(R, G, B, maxVal)

\* void convertRGBToLAB(float R, float G, float B): the new L, a, b.
convertRGBToLAB(R, G, B) ==
  LET maxVal == Max2(Max2(R, G), B)
  IN IF maxVal <= 0 THEN <<0, 0, 0>> ELSE ConvertScaled(R, G, B, maxVal)

\* Samples the APDS9960 of the PWM sketch delivers: black and white.
PwmSamples == {<<0, 0, 0>>, <<255, 255, 255>>}

PwmInit ==
  /\ duty_cycle = 80
  /\ inputString = <<>>
  /\ inputComplete = FALSE
  /\ rxBuf = <<>>
  /\ pwmPin = LOW
  /\ ppc = "serial"
  /\ high_time = 0 /\ low_time = 0
  /\ mini = 0
  /\ delayMs = 0
  /\ lab = <<0, 0, 0>>
  /\ readOk = FALSE

\* A character arrives on the serial line (receive interrupt) at any time.
SerialRx(c) ==
  /\ Len(rxBuf) + Len(inputString) < MaxPending
  /\ rxBuf' = Append(rxBuf, c)
  /\ UNCHANGED <<duty_cycle, inputString, inputComplete, pwmPin, ppc,
                 high_time, low_time, mini, delayMs>>
  /\ UNCHANGED <<lab, readOk>>
  /\ UNCHANGED nonPwmVars

\* // Non-blocking Serial read
ReadSerial ==
  /\ ppc = "serial"
  /\ inputString' = DrainString(rxBuf, inputString)
  /\ inputComplete' = (inputComplete \/ HasNewline(rxBuf))
  /\ rxBuf' = <<>>
  /\ ppc' = "parse"
  /\ UNCHANGED <<duty_cycle, pwmPin, high_time, low_time, mini, delayMs>>
  /\ UNCHANGED <<lab, readOk>>
  /\ UNCHANGED nonPwmVars

\* Mutant: the upper limit of the range check is missing.
ParseInputNoUpper ==
  /\ ppc = "parse"
  /\ IF inputComplete
       THEN /\ duty_cycle' = IF ToInt(inputString) >= 0
                               THEN ToInt(inputString) ELSE duty_cycle
            /\ inputString' = <<>>
            /\ inputComplete' = FALSE
       ELSE UNCHANGED <<duty_cycle, inputString, inputComplete>>
  /\ ppc' = "sense"
  /\ UNCHANGED <<rxBuf, pwmPin, high_time, low_time, mini, delayMs>>
  /\ UNCHANGED <<lab, readOk>>
  /\ UNCHANGED nonPwmVars

\* if (inputComplete) { ... }
ParseInput ==
  /\ ppc = "parse"
  /\ IF inputComplete
       THEN /\ duty_cycle' = IF ToInt(inputString) >= 0 /\ ToInt(inputString) <= 100
                               THEN ToInt(inputString) ELSE duty_cycle
            /\ inputString' = <<>>
            /\ inputComplete' = FALSE
       ELSE UNCHANGED <<duty_cycle, inputString, inputComplete>>
  /\ ppc' = "sense"
  /\ UNCHANGED <<rxBuf, pwmPin, high_time, low_time, mini, delayMs>>
  /\ UNCHANGED <<lab, readOk>>
  /\ UNCHANGED nonPwmVars

\* Mutant: the conversion runs whether or not the four reads succeeded.
ReadColorSensorUnchecked ==
  /\ ppc = "sense"
  /\ \E okA, okR, okG, okB \in BOOLEAN, s \in PwmSamples :
       /\ readOk' = (okA /\ okR /\ okG /\ okB)
       /\ lab' = convertRGBToLAB(s[1], s[2], s[3])
  /\ ppc' = "pwm"
  /\ UNCHANGED <<duty_cycle, inputString, inputComplete, rxBuf, pwmPin,
                 high_time, low_time, mini, delayMs>>
  /\ UNCHANGED nonPwmVars

\* // Read Color Sensor: if (readAmbientLight && readRedLight && readGreenLight &&
\* readBlueLight) convertRGBToLAB(red_light, green_light, blue_light).  The light
\* readings themselves are only printed and passed on, in the iteration they
\* were read in.
ReadColorSensor ==
  /\ ppc = "sense"
  /\ \E okA, okR, okG, okB \in BOOLEAN, s \in PwmSamples :
       /\ readOk' = (okA /\ okR /\ okG /\ okB)
       /\ lab' = IF readOk' THEN convertRGBToLAB(s[1], s[2], s[3]) ELSE lab
  /\ ppc' = "pwm"
  /\ UNCHANGED <<duty_cycle, inputString, inputComplete, rxBuf, pwmPin,
                 high_time, low_time, mini, delayMs>>
  /\ UNCHANGED nonPwmVars

MiniCycleTime == 125
MiniCycles == 16

\* // Manual PWM Section: the if / else if / else on duty_cycle.
PwmSelect ==
  /\ ppc = "pwm"
  /\ IF duty_cycle >= 100
       THEN /\ pwmPin' = HIGH /\ delayMs' = 100 /\ ppc' = "serial"
            /\ UNCHANGED <<high_time, low_time>>
       ELSE IF duty_cycle <= 0
       THEN /\ pwmPin' = LOW /\ delayMs' = 100 /\ ppc' = "serial"
            /\ UNCHANGED <<high_time, low_time>>
       ELSE /\ high_time' = WrapInt16(MiniCycleTime * duty_cycle) \div 100
            /\ low_time' = MiniCycleTime - high_time'
            /\ ppc' = "high"
            /\ UNCHANGED <<pwmPin, delayMs>>
  /\ mini' = 0
  /\ UNCHANGED <<duty_cycle, inputString, inputComplete, rxBuf>>
  /\ UNCHANGED lab /\ readOk' = FALSE
  /\ UNCHANGED nonPwmVars

\* Mutant: each mini-cycle takes a freshly received duty value.
PwmHighPolling ==
  /\ ppc = "high"
  /\ IF HasNewline(rxBuf) /\ ToInt(DrainString(rxBuf, <<>>)) \in 1..99
       THEN /\ duty_cycle' = ToInt(DrainString(rxBuf, <<>>))
            /\ rxBuf' = <<>>
       ELSE UNCHANGED <<duty_cycle, rxBuf>>
  /\ high_time' = (MiniCycleTime * duty_cycle') \div 100
  /\ low_time' = MiniCycleTime - high_time'
  /\ pwmPin' = HIGH
  /\ delayMs' = high_time'
  /\ ppc' = "low"
  /\ UNCHANGED <<inputString, inputComplete, mini>>
  /\ UNCHANGED <<lab, readOk>>
  /\ UNCHANGED nonPwmVars

\* digitalWrite(pwmPin, HIGH); delay(high_time);
PwmHigh ==
  /\ ppc = "high"
  /\ pwmPin' = HIGH
  /\ delayMs' = high_time
  /\ ppc' = "low"
  /\ UNCHANGED <<duty_cycle, inputString, inputComplete, rxBuf,
                 high_time, low_time, mini>>
  /\ UNCHANGED <<lab, readOk>>
  /\ UNCHANGED nonPwmVars

\* Mutant: the unrolled sequence has one mini-cycle fewer.
PwmLowFifteen ==
  /\ ppc = "low"
  /\ pwmPin' = LOW
  /\ delayMs' = low_time
  /\ IF mini + 1 = MiniCycles - 1
       THEN /\ ppc' = "serial" /\ mini' = 0
            /\ high_time' = 0 /\ low_time' = 0
       ELSE /\ ppc' = "high" /\ mini' = mini + 1
            /\ UNCHANGED <<high_time, low_time>>
  /\ UNCHANGED <<duty_cycle, inputString, inputComplete, rxBuf>>
  /\ UNCHANGED <<lab, readOk>>
  /\ UNCHANGED nonPwmVars

\* digitalWrite(pwmPin, LOW); delay(low_time); after the 16th, loop() returns.
PwmLow ==
  /\ ppc = "low"
  /\ pwmPin' = LOW
  /\ delayMs' = low_time
  /\ IF mini + 1 = MiniCycles
       THEN /\ ppc' = "serial" /\ mini' = 0
            /\ high_time' = 0 /\ low_time' = 0
       ELSE /\ ppc' = "high" /\ mini' = mini + 1
            /\ UNCHANGED <<high_time, low_time>>
  /\ UNCHANGED <<duty_cycle, inputString, inputComplete, rxBuf>>
  /\ UNCHANGED <<lab, readOk>>
  /\ UNCHANGED nonPwmVars

PwmLoop ==
  \/ ReadSerial
  \/ ParseInput
  \/ ReadColorSensor
  \/ PwmSelect
  \/ PwmHigh
  \/ PwmLow

SerialReceive == \E c \in Chars : SerialRx(c)

PwmNext == PwmLoop \/ SerialReceive

\* Whole lines of digits, for values beyond 16 bits: the digits sent and the
\* longest line.
LineDigits == {"5", "6"}
Lines == UNION {[1..n -> LineDigits] : n \in 1..MaxLineLen}

\* All characters of one line, newline included, arrive while nothing is pending.
SerialLine(l) ==
  /\ rxBuf = <<>> /\ inputString = <<>> /\ ~inputComplete
  /\ rxBuf' = Append(l, "\n")
  /\ UNCHANGED <<duty_cycle, inputString, inputComplete, pwmPin, ppc,
                 high_time, low_time, mini, delayMs>>
  /\ UNCHANGED <<lab, readOk>>
  /\ UNCHANGED nonPwmVars

LineReceive == \E l \in Lines : SerialLine(l)

LineNext == PwmLoop \/ LineReceive

(***************************************************************************)
(* Part 3: the colour conversions applied to a sample                      *)
(***************************************************************************)
\* Channel values of the samples: 0, the 8-bit maximum, twice that, and a count
\* above 32767.
Channels == {0, 255, 510, 40000}
Samples == Channels \X Channels \X Channels
NoLab == <<>>

LabInit ==
  /\ sample = <<0, 0, 0>>
  /\ converted = FALSE
  /\ sensorLab = [w \in IntWidths |-> NoLab]

\* sensor.getColorData(&r, &g, &b, &c): a sensor delivers the sample s.
GetColorData(s) ==
  /\ sample' = s
  /\ converted' = FALSE
  /\ sensorLab' = [w \in IntWidths |-> NoLab]
  /\ UNCHANGED pwmVars
  /\ UNCHANGED nonLabVars

\* The sample goes through readSensor's normalizeRGB, RGBtoXYZ, XYZtoLAB and
\* through convertRGBToLAB(red_light, green_light, blue_light).
ConvertSample ==
  /\ ~converted
  /\ converted' = TRUE
  /\ sensorLab' = [w \in IntWidths |-> SensorLab(sample, w)]
  /\ lab' = convertRGBToLAB(sample[1], sample[2], sample[3])
  /\ UNCHANGED <<sample, duty_cycle, inputString, inputComplete, rxBuf, pwmPin,
                 ppc, high_time, low_time, mini, delayMs, readOk>>
  /\ UNCHANGED nonLabVars

NewSample == \E s \in Samples : GetColorData(s)

LabNext == NewSample \/ ConvertSample

(***************************************************************************)
(* Part 4: the touch UI, src/src/main.cpp                                  *)
(***************************************************************************)
NoTouch == <<>>

startX == 50
startY == 100
boxSize == 30
spacing == 50

\* shadeBoxes[i] as displayShade() stores it.
shadeBoxes(i) == [x |-> startX + i * spacing, y |-> startY, w |-> boxSize, h |-> boxSize]

\* rect_t::contains
contains(r, tx, ty) ==
  tx >= r.x /\ tx <= (r.x + r.w) /\ ty >= r.y /\ ty <= (r.y + r.h)

\* Touch points: left of, on the edges of, between and right of the boxes; above,
\* on the edges of and below them.
TouchXs == {40, 50, 80, 90, 100, 130, 140, 150, 180, 190}
TouchYs == {90, 100, 130, 140}
TouchInputs == {NoTouch} \cup (TouchXs \X TouchYs)

\* The globals the touch handling works on.
TouchState == [idx |-> uiShadeIndex, last |-> lastShadeIndex, shown |-> shown,
               sent |-> sent, count |-> sentCount]

\* Mutant: sendShadeIndex sends whether or not the value was sent before.
sendShadeIndexAlways(st) ==
  [st EXCEPT !.sent = st.idx, !.count = st.count + 1, !.last = st.idx]

\* sendShadeIndex(): write shadeIndex to address 8 unless it was the last one sent.
sendShadeIndex(st) ==
  IF st.idx # st.last
    THEN [st EXCEPT !.sent = st.idx, !.count = st.count + 1, !.last = st.idx]
    ELSE st

\* The body of for (int i = 0; i < 3; i++) from box i on.
RECURSIVE TouchBoxes(_, _, _, _)
TouchBoxes(i, tx, ty, st) ==
  IF i >= 3 THEN st
  ELSE TouchBoxes(i + 1, tx, ty,
         IF contains(shadeBoxes(i), tx, ty) /\ st.idx # i
           THEN sendShadeIndex([st EXCEPT !.idx = i, !.shown = i])
           ELSE st)

TouchInit ==
  /\ uiShadeIndex = 0
  /\ lastShadeIndex = -1
  /\ shown = 0
  /\ sent = -1
  /\ sentCount = 0
  /\ touch = NoTouch

\* One iteration of loop() with the touch state t.
TouchLoop(t) ==
  LET st == IF t = NoTouch THEN TouchState
            ELSE TouchBoxes(0, t[1], t[2], TouchState)
  IN /\ st.count <= MaxSent
     /\ touch' = t
     /\ uiShadeIndex' = st.idx
     /\ lastShadeIndex' = st.last
     /\ shown' = st.shown
     /\ sent' = st.sent
     /\ sentCount' = st.count
     /\ UNCHANGED nonTouchVars

TouchNext == \E t \in TouchInputs : TouchLoop(t)

(***************************************************************************)
(* Part 5: the rotary UI, src/M5Dial/M5Dial.ino                            *)
(***************************************************************************)
num_positions == 6

DialInit ==
  /\ encoder = 0
  /\ oldPosition = -999
  /\ currentShade = 1
  /\ prevShade = 1
  /\ lastDiff = 0
  /\ turned = FALSE

\* The user turns the encoder by one detent, clockwise (+1) or counter-clockwise.
Turn(d) ==
  /\ encoder + d \in (0 - MaxTurn)..MaxTurn
  /\ encoder' = encoder + d
  /\ turned' = TRUE
  /\ UNCHANGED <<oldPosition, currentShade, prevShade, lastDiff>>
  /\ UNCHANGED nonDialVars

Sign(n) == IF n > 0 THEN 1 ELSE IF n < 0 THEN -1 ELSE 0

\* Mutant: the counter-clockwise branch subtracts without wrapping.
DialLoopNoWrap ==
  LET newPosition == encoder
      diff == newPosition - oldPosition
  IN /\ newPosition # oldPosition
     /\ currentShade' = IF diff > 0 THEN (currentShade % num_positions) + 1
                                    ELSE currentShade - 1
     /\ prevShade' = currentShade
     /\ lastDiff' = Sign(diff)
     /\ oldPosition' = newPosition
     /\ UNCHANGED <<encoder, turned>>
     /\ UNCHANGED nonDialVars

\* loop(): newPosition = M5Dial.Encoder.read(); if (newPosition != oldPosition) ...
\* An iteration that reads the old position again changes nothing.
DialLoop ==
  LET newPosition == encoder
      diff == newPosition - oldPosition
  IN /\ newPosition # oldPosition
     /\ currentShade' = IF diff > 0
                          THEN (currentShade % num_positions) + 1
                          ELSE ((currentShade - 2 + num_positions) % num_positions) + 1
     /\ prevShade' = currentShade
     /\ lastDiff' = Sign(diff)
     /\ oldPosition' = newPosition
     /\ UNCHANGED <<encoder, turned>>
     /\ UNCHANGED nonDialVars

TurnEncoder == \E d \in {-1, 1} : Turn(d)

DialNext == DialLoop \/ TurnEncoder

Init == CtlInit /\ PwmInit /\ LabInit /\ TouchInit /\ DialInit

SpecPwm == Init /\ [][PwmNext]_vars

SpecCtl == Init /\ [][CtlNext]_vars

SpecLab == Init /\ [][LabNext]_vars

SpecLine == Init /\ [][LineNext]_vars

SpecTouch == Init /\ [][TouchNext]_vars

SpecDial == Init /\ [][DialNext]_vars

(***************************************************************************)
(* Part 1: properties                                                      *)
(***************************************************************************)
ValidShades == 0..5
AllHeat(level) == \A p \in HeatPins : heat[p] = level
Done == readyPin = LOW /\ AllHeat(LOW)
\* Every step of loop() moves pc; a step that changes the controller's state and
\* leaves pc alone is a receiveEvent call, after which shadeIndex is its last byte.
LoopStep == pc' # pc
ReceiveStep == pc' = pc
ReceivedValid == ReceiveStep /\ shadeIndex' \in ValidShades
ReceivedInvalid == ReceiveStep /\ shadeIndex' \notin ValidShades
\* The sensors have all been read and avgL computed.
AvgKnown == pc \in {"test1", "test2", "fire", "clear", "delay"}
NValid == Cardinality({s \in Sensors : ok[s]})
SumValid == (IF ok[1] THEN L1 ELSE 0) + (IF ok[2] THEN L2 ELSE 0) + (IF ok[3] THEN L3 ELSE 0)
ReadPc(k) == CASE k = 1 -> "read1" [] k = 2 -> "read2" [] k = 3 -> "read3"
\* The order the claim gives: sensor k is selected (channel k - 1), then read,
\* then the next sensor; after sensor 3 (or setup's sensor 4) comes sensor 1.
NextBusOp(b) ==
  IF b.op = "select" THEN [op |-> "read", n |-> b.n + 1]
  ELSE [op |-> "select", n |-> IF b.n >= 3 THEN 0 ELSE b.n]

\* C1: loop() decides to switch the heaters off and assert the ready line in a
\* cycle exactly when, at that cycle's test, a target is set (targetL > 0) and
\* avgL <= targetL; a cycle that switches off has read the threshold of a
\* received shade as its target and has avgL at or below a threshold that was the
\* target during its test; the output pins change in no other step, so never
\* before a shade was selected and never in a cycle whose avgL is above the threshold.
C1_SwitchOffOnlyAtTarget ==
  [][ /\ (pc = "test1" /\ LoopStep) => (pc' = "test2" <=> targetL > 0)
      /\ (pc = "test2" /\ LoopStep) => (pc' = "fire" <=> avgL <= targetL)
      /\ (pc = "test2" /\ pc' = "fire") =>
            /\ shadeReceived
            /\ tgtA \in {ShadeToTarget(i) : i \in ValidShades}
            /\ \/ avgL <= tgtA
               \/ /\ shadeIndex \in ValidShades
                  /\ targetL = ShadeToTarget(shadeIndex)
                  /\ avgL <= targetL
      /\ (heat' # heat \/ readyPin' # readyPin) =>
            (pc = "fire" /\ readyPin' = LOW /\ \A p \in HeatPins : heat'[p] = LOW)
    ]_ctlVars

\* C1 witness: the heaters were just switched off in a cycle whose avgL equals the target.
C1_Witness == pc = "clear" /\ Done /\ tgtB > 0 /\ avgL = tgtB

\* C2: between two receptions of a shade the switch-off block runs at most once,
\* also when avgL stays at or below the old threshold in later cycles, and once
\* the ready line is asserted (LOW) it stays asserted.
C2_ReadyOnceAndHeld ==
  /\ [](fires <= 1)
  /\ [][readyPin = LOW => readyPin' = LOW]_ctlVars

\* C2 witness: a later cycle after completion, still dark enough, that did not fire again.
C2_Witness ==
  /\ fires = 1 /\ readyPin = LOW
  /\ pc = "delay" /\ tgtA = -1 /\ avgL = 45

\* C3: once the heaters are off and the ready line asserted, no step of loop()
\* drives a heater HIGH or de-asserts the ready line, whatever the sensors read.
C3_DoneIsTerminal == [][(Done /\ LoopStep) => Done']_ctlVars

\* C3 witness: after completion with no new reception, a cycle read avgL = 90,
\* above every threshold, and the outputs are unchanged.
C3_Witness == Done /\ fires = 1 /\ pc = "delay" /\ avgL = 90 /\ targetL = -1

\* C4 (as claimed): receiving a valid shade after completion de-asserts the ready
\* line and energises the heaters again.
C4_NewShadeRestarts ==
  [][(Done /\ ReceivedValid) => (readyPin' = HIGH /\ \A p \in HeatPins : heat'[p] = HIGH)]_ctlVars

C6_TargetStableInCycle ==
  pc \in {"fire", "clear"} => (tgtA = tgtB /\ targetL = tgtB)

\* C7 (as claimed): avgL is the mean of the L* values of the sensors whose read
\* succeeded in this cycle.
C7_MeanOfValidSensors ==
  (AvgKnown /\ NValid > 0) => avgL * NValid = SumValid

\* C8 (as claimed): in a cycle where every read failed, loop() changes neither
\* the heater outputs, nor the ready line, nor the target.
C8_AllFailedIsNoOp ==
  [][(AvgKnown /\ NValid = 0 /\ LoopStep) => UNCHANGED <<heat, readyPin, targetL>>]_ctlVars

\* C11: a received shade 0..5 always sets a positive target, and when a shade
\* is received while the target of another shade is still set, the darker shade
\* (higher index) has the strictly lower target: the table is positive, strictly
\* decreasing and maps distinct shades to distinct thresholds.
C11_ThresholdsDecrease ==
  [][ /\ ReceivedValid => (targetL' > 0 /\ targetL' = ShadeToTarget(shadeIndex'))
      /\ (ReceivedValid /\ shadeIndex \in ValidShades /\ targetL > 0) =>
            /\ (shadeIndex' > shadeIndex => targetL' < targetL)
            /\ (shadeIndex' < shadeIndex => targetL' > targetL)
            /\ (shadeIndex' # shadeIndex => targetL' # targetL)
    ]_ctlVars

\* C11 witness: loop() saw the target 65 of shade 2, then the darker shade 3 was
\* received and set the lower target 55.
C11_Witness == pc = "test2" /\ tgtA = 65 /\ shadeIndex = 3 /\ targetL = 55

\* C12: the master transactions of loop() follow the fixed cycle select 0,
\* read 1, select 1, read 2, select 2, read 3; each read comes directly after
\* the select of its own channel, which is still the selected one.
C12_SelectThenReadInOrder ==
  /\ [](pc \in {"read1", "read2", "read3"} =>
          \E k \in Sensors : /\ pc = ReadPc(k)
                              /\ bus = [op |-> "select", n |-> k - 1]
                              /\ mux = k - 1)
  /\ [][bus' # bus => bus' = NextBusOp(bus)]_ctlVars

\* C12 witness: sensor 3 is about to be read right after its channel was
\* selected, sensors 1 and 2 having been read before in this cycle.
C12_Witness ==
  /\ pc = "read3" /\ mux = 2 /\ bus = [op |-> "select", n |-> 2]
  /\ L1 # NoValue /\ L2 # NoValue /\ shadeReceived

(***************************************************************************)
(* Part 2: properties                                                      *)
(***************************************************************************)
Actuating == ppc \in {"high", "low"}

\* C9 (as claimed): the duty cycle is always one of the presets 100, 80, 60, 0.
C9_DutyIsPreset == duty_cycle \in {100, 80, 60, 0}

\* C9 (amended): the duty cycle is always a whole percentage in 0..100.
C9_DutyInRange == duty_cycle \in 0..100

\* C9 witness: the pin is being driven with a duty cycle that is no preset.
C9_Witness == Actuating /\ duty_cycle = 10 /\ high_time = 12

\* C10: while the 16 mini-cycles of an iteration run, duty_cycle, high_time and
\* low_time do not change, they are the values computed from duty_cycle at the
\* start of the section, every HIGH phase lasts high_time, and characters that
\* arrive meanwhile only wait in the receive buffer.
C10_DutyFixedDuringActuation ==
  /\ [](Actuating => /\ high_time = (MiniCycleTime * duty_cycle) \div 100
                      /\ low_time = MiniCycleTime - high_time)
  /\ [](ppc = "low" => delayMs = high_time)
  /\ [][Actuating =>
          /\ duty_cycle' = duty_cycle
          /\ Actuating' => (high_time' = high_time /\ low_time' = low_time)]_pwmVars

\* C10 witness: a complete line with another duty value arrived during the
\* actuation, whose last mini-cycle still runs with the old value.
C10_Witness ==
  /\ ppc = "low" /\ mini = MiniCycles - 1
  /\ duty_cycle = 80 /\ delayMs = 100
  /\ rxBuf = <<"1", "\n">>

\* C13: an iteration in which one of the four light reads fails skips the
\* conversion and leaves L, a, b and the duty cycle as they were; the PWM section
\* runs in that same iteration, and every iteration comes to the sensor read
\* again, whatever the previous read did.
C13_FailedReadIsNotFatal ==
  [][ /\ (ppc = "sense" /\ ppc' # ppc) => ppc' = "pwm"
      /\ (ppc = "sense" /\ ppc' = "pwm" /\ ~readOk') =>
            (lab' = lab /\ duty_cycle' = duty_cycle)
      /\ (ppc = "pwm" /\ ppc' # ppc) =>
            \/ duty_cycle >= 100 /\ pwmPin' = HIGH /\ ppc' = "serial"
            \/ duty_cycle <= 0 /\ pwmPin' = LOW /\ ppc' = "serial"
            \/ duty_cycle \in 1..99 /\ ppc' = "high" /\ high_time' + low_time' = MiniCycleTime
      /\ (ppc = "parse" /\ ppc' # ppc) => ppc' = "sense"
    ]_pwmVars

\* C13 witness: the read of this iteration failed, L, a, b still hold the
\* conversion of an earlier white sample, and the PWM section is about to run.
C13_Witness == ppc = "pwm" /\ ~readOk /\ lab = convertRGBToLAB(255, 255, 255) /\ lab # <<0, 0, 0>>

ParseStep == ppc = "parse" /\ ppc' = "sense"
DrainStep == ppc = "serial" /\ ppc' = "parse"
IsInteger(s) == s # <<>> /\ \A i \in 1..Len(s) : s[i] \in Digits
HasNonNumeric(s) == \E i \in 1..Len(s) : s[i] \notin Digits

\* The text between the last newline of a character stream and the one before it.
RECURSIVE LastCompleteLine(_, _, _)
LastCompleteLine(buf, cur, last) ==
  IF buf = <<>> THEN last
  ELSE IF Head(buf) = "\n" THEN LastCompleteLine(Tail(buf), <<>>, cur)
  ELSE LastCompleteLine(Tail(buf), Append(cur, Head(buf)), last)

C17_LastCompleteLineWins ==
  [][ /\ (DrainStep /\ HasNewline(rxBuf)) =>
            inputString' = LastCompleteLine(inputString \o rxBuf, <<>>, <<>>)
      /\ (ParseStep /\ inputComplete /\ IsInteger(inputString)
             /\ AtoL(inputString) \in 0..100) => duty_cycle' = AtoL(inputString)
      /\ (ParseStep /\ inputComplete /\ HasNonNumeric(inputString)) =>
            duty_cycle' = duty_cycle
    ]_pwmVars

(***************************************************************************)
(* Part 3: properties                                                      *)
(***************************************************************************)
MaxChannel == Max2(Max2(sample[1], sample[2]), sample[3])

\* C14: converting a sample whose largest channel is 0 gives exactly
\* L = a = b = 0 in both conversions, and no result of a division by the zero
\* maximum (NaN) appears.
C14_DegenerateSampleIsZero ==
  (converted /\ MaxChannel <= 0) =>
     /\ lab = <<0, 0, 0>>
     /\ \A w \in IntWidths : sensorLab[w] = <<0, 0, 0>>
     /\ \A k \in 1..3 : lab[k] # NaN

\* C14 witness: the black sample has gone through both conversions.
C14_Witness ==
  /\ converted /\ sample = <<0, 0, 0>>
  /\ lab = <<0, 0, 0>> /\ sensorLab[16] = <<0, 0, 0>>

\* C15: for every sample the L* of both conversions lies in [0, 100].
C15_LightnessInRange ==
  converted =>
     /\ lab[1] >= 0 /\ lab[1] <= 100 * PwmOne
     /\ \A w \in IntWidths : sensorLab[w][1] >= 0 /\ sensorLab[w][1] <= 100 * InoOne

(***************************************************************************)
(* Part 4: properties                                                      *)
(***************************************************************************)
NoBox == -1
\* The shade box a touch point lies in.
BoxOf(t) ==
  IF t # NoTouch /\ \E i \in 0..2 : contains(shadeBoxes(i), t[1], t[2])
    THEN CHOOSE i \in 0..2 : contains(shadeBoxes(i), t[1], t[2])
    ELSE NoBox

\* C18: once loop() has handled a touch in shade box i, the last byte sent to
\* address 8 is i and is the shade the display shows, also for the shade shown
\* at power-up and for the shade that is already selected.
C18_TouchedShadeIsSent ==
  [][ BoxOf(touch') # NoBox => (sent' = BoxOf(touch') /\ sent' = shown') ]_touchVars

(***************************************************************************)
(* Part 5: properties                                                      *)
(***************************************************************************)
DialChange == oldPosition' # oldPosition

\* C19: the current shade is always in 1..6; an iteration that sees the encoder
\* count risen moves to the next shade (6 to 1), one that sees it fallen moves to
\* the previous shade (1 to 6), and a fall seen after a rise restores the shade
\* from before the rise.
C19_ShadeCyclesWithinRange ==
  /\ [](currentShade \in 1..num_positions)
  /\ [][ /\ (DialChange /\ oldPosition' > oldPosition) =>
               currentShade' = (IF currentShade = num_positions THEN 1 ELSE currentShade + 1)
         /\ (DialChange /\ oldPosition' < oldPosition) =>
               currentShade' = (IF currentShade = 1 THEN num_positions ELSE currentShade - 1)
         /\ (DialChange /\ oldPosition' < oldPosition /\ lastDiff > 0) =>
               currentShade' = prevShade
       ]_dialVars

\* C19 witness: after the user turned the encoder, a counter-clockwise change
\* took the shade from 1 around to 6.
C19_Witness ==
  turned /\ currentShade = num_positions /\ prevShade = 1 /\ lastDiff = -1 /\ oldPosition = 0

\* C20: while the user has not turned the encoder the current shade is 1, and
\* the shade changes only in an iteration that reads a position different from
\* the one observed before.
C20_StartsAtShadeOne ==
  /\ [](~turned => currentShade = 1)
  /\ [][currentShade' # currentShade => encoder # oldPosition]_dialVars

\* The largest value of a signed 16-bit int.
Int16Max == 32767

\* floor(125 * d / 100): the HIGH time of one mini-cycle at duty cycle d.
HighTimeOf(d) == (MiniCycleTime * d) \div 100

\* C21: in one iteration of the manual PWM section, a duty cycle d with
\* 0 < d < 100 drives the pin through exactly 16 mini-cycles, each HIGH for
\* floor(125*d/100) ms and then LOW for the rest of the 125 ms, neither time
\* negative; with d >= 100 the iteration only writes HIGH and with d <= 0 only
\* LOW, each followed by one 100 ms delay; the pin is written nowhere else; and
\* the product 125*d always fits a signed 16-bit int.
C21_SoftwarePwmIteration ==
  /\ [](MiniCycleTime * duty_cycle \in 0..Int16Max)
  /\ [](Actuating =>
          /\ duty_cycle \in 1..99
          /\ mini \in 0..(MiniCycles - 1)
          /\ high_time = HighTimeOf(duty_cycle)
          /\ high_time >= 0 /\ low_time >= 0
          /\ high_time + low_time = MiniCycleTime)
  /\ [][ /\ (ppc = "pwm" /\ ppc' # ppc /\ duty_cycle >= 100) =>
               (pwmPin' = HIGH /\ delayMs' = 100 /\ ppc' = "serial")
         /\ (ppc = "pwm" /\ ppc' # ppc /\ duty_cycle <= 0) =>
               (pwmPin' = LOW /\ delayMs' = 100 /\ ppc' = "serial")
         /\ (ppc = "pwm" /\ ppc' # ppc /\ duty_cycle \in 1..99) =>
               (ppc' = "high" /\ mini' = 0 /\ pwmPin' = pwmPin)
         /\ (ppc = "high" /\ ppc' # ppc) =>
               (ppc' = "low" /\ mini' = mini
                /\ pwmPin' = HIGH /\ delayMs' = HighTimeOf(duty_cycle))
         /\ (ppc = "low" /\ ppc' # ppc) =>
               /\ pwmPin' = LOW
               /\ delayMs' = MiniCycleTime - HighTimeOf(duty_cycle)
               /\ IF mini = MiniCycles - 1
                    THEN ppc' = "serial"
                    ELSE ppc' = "high" /\ mini' = mini + 1
         /\ (ppc \notin {"pwm", "high", "low"} \/ ppc' = ppc) => pwmPin' = pwmPin
       ]_pwmVars

\* C21 witness: the sixteenth mini-cycle of an iteration at duty cycle 10 has
\* ended with its LOW phase of 113 ms and loop() has returned.
C21_Witness ==
  /\ ppc = "serial" /\ duty_cycle = 10
  /\ pwmPin = LOW /\ delayMs = MiniCycleTime - HighTimeOf(10)
  /\ high_time = 0 /\ low_time = 0


====
